---- MODULE Spec2Model ----
(***************************************************************************)
(* A model of src/twitch.py (class Twitch): the watch orchestrator         *)
(* (run), the channel heartbeat task (watch / watcher / stop_watching),    *)
(* the stream-state handler (process_stream_state) and the session         *)
(* manager (_login / check_login / gql_request).                           *)
(*                                                                         *)
(* Python's None is modelled by a distinguished value of the same shape:   *)
(* NoStream, NoChannel, task id 0, token 0, user id 0, password 0.         *)
(***************************************************************************)
EXTENDS Naturals, Sequences, FiniteSets

\* ------------------------------------------------------------------ bounds
NumChannels == 2
NumGames == 2
MaxObj == 2
MaxTasks == 2
MaxPings == 61
OrchPings == 1
MaxViewers == 0
NumPasswords == 2
NumTokens == 2
NumUsers == 1

\* ------------------------------------------------------- program constants
BonusPeriod == 30
MaxAttempts == 10
CaptchaCode == 1000
BadPasswordCode == 3001
AuthyNeeded == 3011
AuthyInvalid == 3012
EmailNeeded == 3022
EmailInvalid == 3023
Unauthorized == 401
StatusOk == 200

ChannelIds == 1..NumChannels
Games == 1..NumGames

VARIABLES
    opc,               \* position of run(): the await it is suspended at
    channel_names,     \* run()'s argument: <<>> (discovery) or a list of names
    games,             \* run()'s local set of relevant games
    cidx,              \* campaigns of self.inventory run() has processed
    channels,          \* self.channels, in insertion order
    watching_channel,  \* self._watching_channel
    watching_task,     \* self._watching_task (a task id, 0 for None)
    tasks,             \* the heartbeat tasks the event loop still runs
    task_seq,          \* the number of tasks asyncio.create_task() has made
    channel_change,    \* self._channel_change
    campaign_change,   \* self._campaign_change
    refresh_channels,  \* run()'s local flag
    ridx,              \* position of the refresh loop of run()
    ws_open,           \* the websocket pool is started
    fresh,             \* history: no scan has run since the registry was populated
    unhandled          \* history: reevaluate_campaigns() was called and run() has not handled it yet

ovars == <<opc, channel_names, games, cidx, channels, watching_channel,
           watching_task, tasks, task_seq, channel_change, campaign_change,
           refresh_channels, ridx, ws_open, fresh, unhandled>>

\* the session manager (check_login, _login) and the services it talks to
VARIABLES
    lpc,               \* position of check_login() / _login()
    password,          \* self.password (0 for None)
    payload,           \* _login()'s local payload
    attempt,           \* submissions made by the running _login()
    login_response,    \* _login()'s local login_response
    access_token,      \* self._access_token (0 for None)
    user_id,           \* self._user_id (0 for None)
    is_logged_in,      \* self._is_logged_in
    jar,               \* the twitch.tv cookie of the session's cookie jar
    cookie,            \* check_login()'s local cookie
    saved,             \* the cookie file at COOKIES_PATH
    rejected           \* the tokens the validation endpoint has answered 401 for

lvars == <<lpc, password, payload, attempt, login_response, access_token, user_id,
           is_logged_in, jar, cookie, saved, rejected>>

\* close(), and the inventory as run() walks it
VARIABLES
    cpc,               \* position of close()
    session_open,      \* self._session has not been closed
    shutdown_log,      \* history: the shutdown steps close() has done, in order
    inventory,         \* self.inventory
    didx,              \* drops of the current campaign run() has visited
    claim_calls        \* history: the drop.claim() calls of this outer cycle, in order

xvars == <<cpc, session_open, shutdown_log, inventory, didx, claim_calls>>

\* history of the stream-state handler
VARIABLES
    event,             \* history: the last event process_stream_state() handled
    event_seq          \* history: the number of events handled, modulo 2

hvars == <<event, event_seq>>

vars == <<ovars, lvars, xvars, hvars>>

\* ---------------------------------------------------------------- Channel
NoStream == [present |-> FALSE, game |-> 0, drops_enabled |-> FALSE, viewer_count |-> 0]

\* the stream records the platform can report for a live channel
StreamData ==
    [present : {TRUE}, game : Games \cup {0}, drops_enabled : BOOLEAN, viewer_count : {0}]

StreamOpt == StreamData \cup {NoStream}

NoChannel == [id |-> 0, obj |-> 0]

\* a reference to a Channel object: the registry key and the object's identity
ChanRef(ch) == [id |-> ch.id, obj |-> ch.obj]

\* Channel.online
Online(ch) == ch.stream.present

\* Channel.set_offline()
SetOffline(ch) == [ch EXCEPT !.stream = NoStream]

\* Channel.set_online(): the stream record comes from the platform
SetOnline(ch, s) == [ch EXCEPT !.stream = s]

\* index of channel id in self.channels, 0 when absent (dict lookup)
IndexOf(chs, id) ==
    IF \E k \in 1..Len(chs) : chs[k].id = id
    THEN CHOOSE k \in 1..Len(chs) : chs[k].id = id
    ELSE 0

RegistryIds(chs) == {chs[k].id : k \in 1..Len(chs)}

\* --------------------------------------------------------------- inventory
MaxDrops == 1
MaxCampaigns == 2

Drops == [can_earn : BOOLEAN, can_claim : BOOLEAN]

DropLists == UNION {[1..n -> Drops] : n \in 0..MaxDrops}

\* the campaigns get_inventory() can return
Campaigns == [status : {"ACTIVE", "UPCOMING"}, game : Games, timed_drops : DropLists]

\* line 100-106: what one campaign adds to run()'s set 'games'
GamesOf(c) ==
    IF c.status = "UPCOMING" THEN {}
    ELSE IF \E j \in 1..Len(c.timed_drops) : c.timed_drops[j].can_earn
    THEN {c.game}
    ELSE {}

\* ------------------------------------------------------- heartbeat tasks
\* a freshly created watcher(channel) coroutine: i = 0, nothing sent yet
NewTask(tid, ch) == [id |-> tid, channel |-> ch.id, i |-> 0, n |-> 0, pc |-> "send"]

\* Task.cancel(): CancelledError is thrown into the task at the await it is
\* suspended at; the watcher does not catch it, so the task never resumes
Cancel(ts, tid) == {t \in ts : t.id # tid}

\* a mutant of watch(): the old task is replaced without being cancelled
WatchNoCancel(ch) ==
    /\ task_seq < MaxTasks
    /\ tasks' = tasks \cup {NewTask(task_seq + 1, ch)}
    /\ watching_task' = task_seq + 1
    /\ task_seq' = task_seq + 1
    /\ watching_channel' = ChanRef(ch)

\* watch(channel)
Watch(ch) ==
    /\ task_seq < MaxTasks
    /\ tasks' = (IF watching_task # 0 THEN Cancel(tasks, watching_task) ELSE tasks)
                \cup {NewTask(task_seq + 1, ch)}
    /\ watching_task' = task_seq + 1
    /\ task_seq' = task_seq + 1
    /\ watching_channel' = ChanRef(ch)

\* a mutant of stop_watching(): the task is cancelled, the pointer is kept
StopWatchingKeepPointer ==
    /\ tasks' = IF watching_task # 0 THEN Cancel(tasks, watching_task) ELSE tasks
    /\ watching_task' = 0
    /\ watching_channel' = watching_channel
    /\ UNCHANGED task_seq

\* stop_watching()
StopWatching ==
    /\ tasks' = IF watching_task # 0 THEN Cancel(tasks, watching_task) ELSE tasks
    /\ watching_task' = 0
    /\ watching_channel' = NoChannel
    /\ UNCHANGED task_seq

\* is_currently_watching(channel)
IsCurrentlyWatching(ch) ==
    watching_channel # NoChannel /\ watching_channel = ChanRef(ch)

\* ------------------------------------------------------------ orchestrator
\* a mutant of the scan: any online channel is taken
QualifiesOnlineOnly(ch, gs) == ch.stream.present

\* the condition of the scan of run() on one registry entry
Qualifies(ch, gs) ==
    /\ ch.stream.present           \* channel.stream is not None
    /\ ch.stream.game # 0          \* channel.stream.game is not None
    /\ ch.stream.drops_enabled
    /\ ch.stream.game \in gs

\* the entry the for loop of the scan breaks at: the first that qualifies, 0 for none
FirstMatch(chs, gs) ==
    IF \E k \in 1..Len(chs) : Qualifies(chs[k], gs)
    THEN CHOOSE k \in 1..Len(chs) :
            /\ Qualifies(chs[k], gs)
            /\ \A j \in 1..(k - 1) : ~Qualifies(chs[j], gs)
    ELSE 0

\* what get_live_streams() can return, flattened in iteration order
Discovered ==
    UNION {[1..n -> [id : ChannelIds, stream : StreamData]] : n \in 0..NumChannels}

\* the discovery loop: a channel whose id is not in the registry is added
RECURSIVE Merge(_, _)
Merge(chs, found) ==
    IF found = <<>> THEN chs
    ELSE LET c == Head(found)
         IN  Merge(IF c.id \in RegistryIds(chs)
                   THEN chs
                   ELSE Append(chs, [id |-> c.id, obj |-> 1, stream |-> c.stream]),
                   Tail(found))

\* self.channels[channel.id] = channel, for a newly constructed Channel
Store(chs, id, s) ==
    LET k == IndexOf(chs, id)
    IN  IF k = 0
        THEN Append(chs, [id |-> id, obj |-> 1, stream |-> s])
        ELSE [chs EXCEPT ![k] = [id |-> id, obj |-> chs[k].obj + 1, stream |-> s]]

\* the fixed-list loop: every named channel is constructed and stored
RECURSIVE StoreAll(_, _, _)
StoreAll(chs, names, st) ==
    IF names = <<>> THEN chs
    ELSE StoreAll(Store(chs, Head(names), st[Head(names)]), Tail(names), st)

\* line 98-99: await self.get_inventory(); games = set()
FetchInventory ==
    /\ opc = "fetch"
    /\ games' = {}
    /\ cidx' = 0
    /\ opc' = "campaigns"
    /\ UNCHANGED <<lvars, xvars, hvars, task_seq, channel_names, channels, watching_channel, watching_task, tasks,
                   channel_change, campaign_change, refresh_channels, ridx, ws_open,
                   fresh, unhandled>>

\* line 100-108: one round of the loop over self.inventory; c is the next campaign
ProcessCampaign ==
    /\ opc = "campaigns"
    /\ cidx < MaxCampaigns
    /\ \E c \in Campaigns : games' = games \cup GamesOf(c)
    /\ cidx' = cidx + 1
    /\ UNCHANGED <<lvars, xvars, hvars, task_seq, opc, channel_names, channels, watching_channel, watching_task, tasks,
                   channel_change, campaign_change, refresh_channels, ridx, ws_open,
                   fresh, unhandled>>

\* line 111-113: the inventory is exhausted: with no games, suspend forever
CheckGames ==
    /\ opc = "campaigns"
    /\ opc' = IF games = {} THEN "idle" ELSE "ws_start"
    /\ cidx' = 0
    /\ UNCHANGED <<lvars, xvars, hvars, task_seq, channel_names, games, channels, watching_channel, watching_task,
                   tasks, channel_change, campaign_change, refresh_channels, ridx,
                   ws_open, fresh, unhandled>>

\* line 115: await self.websocket.start()
StartWebsocket ==
    /\ opc = "ws_start"
    /\ ws_open' = TRUE
    /\ opc' = "populate"
    /\ UNCHANGED <<lvars, xvars, hvars, task_seq, channel_names, games, cidx, channels, watching_channel,
                   watching_task, tasks, channel_change, campaign_change,
                   refresh_channels, ridx, fresh, unhandled>>

\* a mutant of line 146: the inner loop is entered with the refresh flag set
EnterInnerLoopRefreshing ==
    /\ channel_change' = TRUE
    /\ refresh_channels' = TRUE
    /\ fresh' = TRUE
    /\ opc' = "wait"

\* line 145-146: raise channel-change, clear the refresh flag, enter the inner loop
EnterInnerLoop ==
    /\ channel_change' = TRUE
    /\ refresh_channels' = FALSE
    /\ fresh' = TRUE
    /\ opc' = "wait"

\* line 116-146: populate the registry, subscribe, enter the inner loop
Populate ==
    /\ opc = "populate"
    /\ IF channel_names = <<>>
       THEN \E found \in Discovered : channels' = Merge(channels, found)
       ELSE /\ \A k \in 1..Len(channels) : channels[k].obj < MaxObj
            /\ \E st \in [ChannelIds -> StreamOpt] :
                 channels' = StoreAll(channels, channel_names, st)
    /\ EnterInnerLoop
    /\ UNCHANGED <<lvars, xvars, hvars, task_seq, channel_names, games, cidx, watching_channel, watching_task,
                   tasks, campaign_change, ridx, ws_open, unhandled>>

\* a mutant of the campaign-change branch: stop_watching() is not called
CampaignBranchKeepWatching ==
    /\ opc = "wait"
    /\ campaign_change
    /\ opc' = "ws_stop"
    /\ unhandled' = FALSE
    /\ UNCHANGED <<lvars, xvars, hvars, task_seq, tasks, watching_task, watching_channel,
                   channel_names, games, cidx, channels, channel_change,
                   campaign_change, refresh_channels, ridx, ws_open, fresh>>

\* line 156-162: the campaign-change branch of the inner loop
CampaignBranch ==
    /\ opc = "wait"
    /\ campaign_change
    /\ StopWatching
    /\ opc' = "ws_stop"
    /\ unhandled' = FALSE
    /\ UNCHANGED <<lvars, xvars, hvars, channel_names, games, cidx, channels, channel_change,
                   campaign_change, refresh_channels, ridx, ws_open, fresh>>

\* a mutant of line 161: the outer loop is cycled with the websocket left open
StopWebsocketLeaveOpen ==
    /\ opc = "ws_stop"
    /\ opc' = "fetch"
    /\ UNCHANGED <<lvars, xvars, hvars, task_seq, channel_names, games, cidx, channels, watching_channel,
                   watching_task, tasks, channel_change, campaign_change,
                   refresh_channels, ridx, ws_open, fresh, unhandled>>

\* line 161-162: await self.websocket.stop(), then cycle the outer loop
StopWebsocket ==
    /\ opc = "ws_stop"
    /\ ws_open' = FALSE
    /\ opc' = "fetch"
    /\ UNCHANGED <<lvars, xvars, hvars, task_seq, channel_names, games, cidx, channels, watching_channel,
                   watching_task, tasks, channel_change, campaign_change,
                   refresh_channels, ridx, fresh, unhandled>>

\* a mutant of the inner loop: the channel-change signal is served without
\* looking at the campaign-change signal first
ScanMatchIgnoringCampaign ==
    /\ opc = "wait"
    /\ channel_change
    /\ FirstMatch(channels, games) # 0
    /\ Watch(channels[FirstMatch(channels, games)])
    /\ refresh_channels' = TRUE
    /\ channel_change' = FALSE
    /\ fresh' = FALSE
    /\ UNCHANGED <<lvars, xvars, hvars, opc, channel_names, games, cidx, channels, campaign_change,
                   ridx, ws_open, unhandled>>

\* line 164-174: the scan finds an entry: watch it, set the flag, clear the signal
ScanMatch ==
    /\ opc = "wait"
    /\ channel_change
    /\ ~campaign_change
    /\ FirstMatch(channels, games) # 0
    /\ Watch(channels[FirstMatch(channels, games)])
    /\ refresh_channels' = TRUE
    /\ channel_change' = FALSE
    /\ fresh' = FALSE
    /\ UNCHANGED <<lvars, xvars, hvars, opc, channel_names, games, cidx, channels, campaign_change,
                   ridx, ws_open, unhandled>>

\* a mutant of the no-match path: the channel-change signal is cleared there too
ScanNoMatchClearing ==
    /\ opc = "wait"
    /\ channel_change
    /\ ~campaign_change
    /\ FirstMatch(channels, games) = 0
    /\ IF refresh_channels
       THEN IF Len(channels) = 0
            THEN opc' = "wait" /\ refresh_channels' = FALSE /\ ridx' = ridx
            ELSE opc' = "refresh" /\ refresh_channels' = TRUE /\ ridx' = 1
       ELSE opc' = "backoff" /\ refresh_channels' = FALSE /\ ridx' = ridx
    /\ fresh' = FALSE
    /\ channel_change' = FALSE
    /\ UNCHANGED <<lvars, xvars, hvars, task_seq, channel_names, games, cidx, channels, watching_channel,
                   watching_task, tasks, campaign_change, ws_open,
                   unhandled>>

\* line 175-187: the scan finds nothing: refresh all channels, or sleep 120
ScanNoMatch ==
    /\ opc = "wait"
    /\ channel_change
    /\ ~campaign_change
    /\ FirstMatch(channels, games) = 0
    /\ IF refresh_channels
       THEN IF Len(channels) = 0
            THEN opc' = "wait" /\ refresh_channels' = FALSE /\ ridx' = ridx
            ELSE opc' = "refresh" /\ refresh_channels' = TRUE /\ ridx' = 1
       ELSE opc' = "backoff" /\ refresh_channels' = FALSE /\ ridx' = ridx
    /\ fresh' = FALSE
    /\ UNCHANGED <<lvars, xvars, hvars, task_seq, channel_names, games, cidx, channels, watching_channel,
                   watching_task, tasks, channel_change, campaign_change, ws_open,
                   unhandled>>

\* line 181-185: one round of the refresh loop: get_stream(), sleep(0.5);
\* after the last entry the flag is cleared and the inner loop continues
RefreshChannel ==
    /\ opc = "refresh"
    /\ ridx \in 1..Len(channels)
    /\ \E s \in StreamOpt : channels' = [channels EXCEPT ![ridx].stream = s]
    /\ IF ridx = Len(channels)
       THEN opc' = "wait" /\ refresh_channels' = FALSE /\ ridx' = 0
       ELSE opc' = "refresh" /\ refresh_channels' = refresh_channels /\ ridx' = ridx + 1
    /\ UNCHANGED <<lvars, xvars, hvars, task_seq, channel_names, games, cidx, watching_channel, watching_task,
                   tasks, channel_change, campaign_change, ws_open, fresh, unhandled>>

\* line 187: await asyncio.sleep(120) returns
Backoff ==
    /\ opc = "backoff"
    /\ opc' = "wait"
    /\ UNCHANGED <<lvars, xvars, hvars, task_seq, channel_names, games, cidx, channels, watching_channel,
                   watching_task, tasks, channel_change, campaign_change,
                   refresh_channels, ridx, ws_open, fresh, unhandled>>

\* reevaluate_campaigns()
ReevaluateCampaigns ==
    /\ campaign_change' = TRUE
    /\ unhandled' = TRUE
    /\ UNCHANGED <<lvars, xvars, hvars, task_seq, opc, channel_names, games, cidx, channels, watching_channel,
                   watching_task, tasks, channel_change, refresh_channels, ridx,
                   ws_open, fresh>>

\* ------------------------------------------------------ stream-state events
\* the events the websocket delivers, each with the stream record the platform
\* reports should the handler set the channel online
Events ==
    [type : {"stream-down"}, viewers : {0}, s : {NoStream}]
    \cup [type : {"stream-up"}, viewers : {0}, s : StreamData]
    \cup [type : {"viewcount"}, viewers : 0..MaxViewers, s : StreamData]

\* a mutant of the handler: a stream-down event raises channel-change for any
\* registry channel, watched or not
ProcessStreamStateAnyDown(id, msg) ==
    /\ ws_open
    /\ LET k == IndexOf(channels, id)
       IN  IF k = 0
           THEN UNCHANGED <<channels, channel_change>>
           ELSE IF msg.type = "stream-down"
           THEN /\ channels' = [channels EXCEPT ![k] = SetOffline(@)]
                /\ channel_change' = TRUE
           ELSE IF msg.type = "stream-up"
           THEN /\ channels' = [channels EXCEPT ![k] = SetOnline(@, msg.s)]
                /\ UNCHANGED channel_change
           ELSE /\ channels' = IF ~Online(channels[k])
                               THEN [channels EXCEPT ![k] = SetOnline(@, msg.s)]
                               ELSE [channels EXCEPT ![k].stream.viewer_count = msg.viewers]
                /\ UNCHANGED channel_change
    /\ UNCHANGED <<lvars, xvars, task_seq, opc, channel_names, games, cidx, watching_channel, watching_task,
                   tasks, campaign_change, refresh_channels, ridx, ws_open, fresh,
                   unhandled>>

\* process_stream_state(channel_id, message)
ProcessStreamState(id, msg) ==
    /\ ws_open
    /\ LET k == IndexOf(channels, id)
       IN  IF k = 0
           THEN UNCHANGED <<channels, channel_change>>
           ELSE IF msg.type = "stream-down"
           THEN /\ channels' = [channels EXCEPT ![k] = SetOffline(@)]
                /\ channel_change' = (channel_change \/ IsCurrentlyWatching(channels[k]))
           ELSE IF msg.type = "stream-up"
           THEN /\ channels' = [channels EXCEPT ![k] = SetOnline(@, msg.s)]
                /\ UNCHANGED channel_change
           ELSE /\ channels' = IF ~Online(channels[k])
                               THEN [channels EXCEPT ![k] = SetOnline(@, msg.s)]
                               ELSE [channels EXCEPT ![k].stream.viewer_count = msg.viewers]
                /\ UNCHANGED channel_change
    /\ UNCHANGED <<lvars, xvars, task_seq, opc, channel_names, games, cidx, watching_channel, watching_task,
                   tasks, campaign_change, refresh_channels, ridx, ws_open, fresh,
                   unhandled>>

\* ------------------------------------------------------------- the watcher
\* a mutant of the watcher: the counter wraps one ping early
AfterSendShortPeriod(t) ==
    IF t.i = 0
    THEN [t EXCEPT !.n = t.n + 1, !.pc = "bonus"]
    ELSE [t EXCEPT !.n = t.n + 1, !.i = (t.i + 1) % (BonusPeriod - 1)]

\* line 199-211 with i # 0: the ping is sent, i advances, the task sleeps;
\* with i = 0 the task goes on to the point-bonus request
AfterSend(t) ==
    IF t.i = 0
    THEN [t EXCEPT !.n = t.n + 1, !.pc = "bonus"]
    ELSE [t EXCEPT !.n = t.n + 1, !.i = (t.i + 1) % BonusPeriod]

\* line 202-211: the point-bonus request (and claim) is done, i advances, the task sleeps
AfterBonus(t) == [t EXCEPT !.i = (t.i + 1) % BonusPeriod, !.pc = "send"]

\* a live watcher task sends its next ping
HeartbeatSend(cap) ==
    /\ \E t \in tasks :
         /\ t.pc = "send"
         /\ t.n < cap
         /\ tasks' = (tasks \ {t}) \cup {AfterSend(t)}
    /\ UNCHANGED <<lvars, xvars, hvars, task_seq, opc, channel_names, games, cidx, channels, watching_channel,
                   watching_task, channel_change, campaign_change, refresh_channels,
                   ridx, ws_open, fresh, unhandled>>

\* a live watcher task finishes its point-bonus check
HeartbeatBonus ==
    /\ \E t \in tasks :
         /\ t.pc = "bonus"
         /\ tasks' = (tasks \ {t}) \cup {AfterBonus(t)}
    /\ UNCHANGED <<lvars, xvars, hvars, task_seq, opc, channel_names, games, cidx, channels, watching_channel,
                   watching_task, channel_change, campaign_change, refresh_channels,
                   ridx, ws_open, fresh, unhandled>>

\* ---------------------------------------------------------- session manager
Passwords == 1..NumPasswords
Tokens == 1..NumTokens
UserIds == 1..NumUsers

\* the password the login endpoint accepts for the account
GoodPassword == NumPasswords

\* error codes of the login endpoint that _login() has no branch for
OtherCodes == {2000}

TwoFactorCodes == {AuthyNeeded, AuthyInvalid, EmailNeeded, EmailInvalid}

NoCookie == [auth_token |-> 0, persistent |-> 0]

NoPayload == [password |-> 0, authy_token |-> FALSE, twitchguard_code |-> FALSE,
              captcha |-> FALSE]

NoResponse == [error_code |-> 0, access_token |-> 0, captcha_proof |-> FALSE]

\* what the login endpoint can answer to a submission: an access token only
\* for the account's password, and never a token it has already revoked;
\* error 3001 only for a wrong password
LoginResponses(pl) ==
    IF pl.password = GoodPassword
    THEN [error_code : {CaptchaCode} \cup TwoFactorCodes \cup OtherCodes,
          access_token : {0}, captcha_proof : BOOLEAN]
         \cup [error_code : {0}, access_token : (Tokens \ rejected) \cup {0},
               captcha_proof : BOOLEAN]
    ELSE [error_code : {CaptchaCode, BadPasswordCode} \cup TwoFactorCodes \cup OtherCodes,
          access_token : {0}, captcha_proof : BOOLEAN]

\* what the validation endpoint can answer for a token: 200 only for a token
\* it has not revoked
ValidateStatuses(tok) ==
    IF tok \in rejected THEN {Unauthorized, 500} ELSE {Unauthorized, StatusOk, 500}

\* line 415: gql_request() calls check_login()
CallCheckLogin ==
    /\ lpc = "idle"
    /\ lpc' = "entry"
    /\ UNCHANGED <<ovars, xvars, hvars, password, payload, attempt, login_response, access_token,
                   user_id, is_logged_in, jar, cookie, saved, rejected>>

\* a mutant of check_login(): no early return
CheckLoginAlways ==
    /\ lpc = "entry"
    /\ lpc' = "loop"
    /\ UNCHANGED <<ovars, xvars, hvars, password, payload, attempt, login_response, access_token,
                   user_id, is_logged_in, jar, cookie, saved, rejected>>

\* line 376-381: return at once when token and user id are set
CheckLoginEntry ==
    /\ lpc = "entry"
    /\ lpc' = IF access_token # 0 /\ user_id # 0 THEN "idle" ELSE "loop"
    /\ UNCHANGED <<ovars, xvars, hvars, password, payload, attempt, login_response, access_token,
                   user_id, is_logged_in, jar, cookie, saved, rejected>>

\* line 383-392: read the cookie; without one log in, else restore the token
ReadCookie ==
    /\ lpc = "loop"
    /\ cookie' = jar
    /\ IF jar = NoCookie
       THEN lpc' = "login" /\ UNCHANGED access_token
       ELSE /\ lpc' = "validate"
            /\ access_token' = IF access_token = 0 THEN jar.auth_token ELSE access_token
    /\ UNCHANGED <<ovars, xvars, hvars, password, payload, attempt, login_response, user_id,
                   is_logged_in, jar, saved, rejected>>

\* line 306-320: _login() asks for a missing password and builds the payload
LoginStart ==
    /\ lpc = "login"
    /\ \E pw \in Passwords :
         /\ password' = IF password = 0 THEN pw ELSE password
         /\ payload' = [NoPayload EXCEPT !.password = password']
    /\ attempt' = 0
    /\ lpc' = "submit"
    /\ UNCHANGED <<ovars, xvars, hvars, login_response, access_token, user_id, is_logged_in, jar,
                   cookie, saved, rejected>>

\* line 327-328, 350-358: what handling a response does to the payload
PayloadAfter(pl, r) ==
    LET p1 == IF r.captcha_proof THEN [pl EXCEPT !.captcha = TRUE] ELSE pl
    IN  IF r.error_code \in {EmailNeeded, EmailInvalid}
        THEN [p1 EXCEPT !.twitchguard_code = TRUE]
        ELSE IF r.error_code \in {AuthyNeeded, AuthyInvalid}
        THEN [p1 EXCEPT !.authy_token = TRUE]
        ELSE p1

\* line 334-337: CaptchaRequired is raised
RaisesCaptcha(r) == r.error_code = CaptchaCode

\* line 360-361: LoginException(error) is raised
RaisesFailed(r) ==
    /\ r.error_code # 0
    /\ r.error_code \notin {CaptchaCode, BadPasswordCode} \cup TwoFactorCodes

\* line 364-368: the success branch is reached and breaks the loop
Breaks(r) ==
    /\ ~RaisesCaptcha(r)
    /\ ~RaisesFailed(r)
    /\ r.error_code \notin TwoFactorCodes     \* line 359: continue
    /\ r.access_token # 0

\* line 322-373: one round of the for loop of _login(): submit the payload,
\* handle the response; after the loop, raise or return the token, which
\* check_login() puts into its cookie (line 388). pw is what get_password()
\* returns when the password is asked for again.
Submit ==
    /\ lpc = "submit"
    /\ attempt < MaxAttempts
    /\ \E r \in LoginResponses(payload), pw \in Passwords :
         /\ login_response' = r
         /\ attempt' = attempt + 1
         /\ payload' = PayloadAfter(payload, r)
         /\ password' = IF r.error_code = BadPasswordCode THEN pw ELSE password
         /\ access_token' = IF Breaks(r) THEN r.access_token ELSE access_token
         /\ lpc' = IF RaisesCaptcha(r) THEN "raised_captcha"
                   ELSE IF RaisesFailed(r) THEN "raised_failed"
                   ELSE IF Breaks(r) \/ attempt + 1 = MaxAttempts
                   THEN (IF access_token' = 0 THEN "raised_exhausted" ELSE "validate")
                   ELSE "submit"
         /\ cookie' = IF lpc' = "validate"
                      THEN [cookie EXCEPT !.auth_token = access_token']
                      ELSE cookie
    /\ UNCHANGED <<ovars, xvars, hvars, user_id, is_logged_in, jar, saved, rejected>>

\* line 394-412: the validation request and what follows it
Validate ==
    /\ lpc = "validate"
    /\ \E st \in ValidateStatuses(access_token), uid \in UserIds :
         IF st = Unauthorized
         THEN /\ jar' = NoCookie                      \* jar.clear_domain
              /\ rejected' = rejected \cup {access_token}
              /\ lpc' = "loop"
              /\ UNCHANGED <<user_id, cookie, is_logged_in, saved>>
         ELSE IF st = StatusOk
         THEN /\ user_id' = uid
              /\ cookie' = [cookie EXCEPT !.persistent = uid]
              /\ is_logged_in' = TRUE
              /\ jar' = cookie'                       \* jar.update_cookies
              /\ saved' = cookie'                     \* jar.save
              /\ lpc' = "idle"
              /\ UNCHANGED rejected
         ELSE /\ lpc' = "loop"
              /\ UNCHANGED <<user_id, cookie, is_logged_in, jar, saved, rejected>>
    /\ UNCHANGED <<ovars, xvars, hvars, password, payload, attempt, login_response, access_token>>

\* ------------------------------------------------- the inventory, drop by drop
\* the lists of campaigns get_inventory() can return
Inventories == UNION {[1..n -> Campaigns] : n \in 0..MaxCampaigns}

\* line 98-99: self.inventory = await self.get_inventory(); games = set()
GetInventory ==
    /\ opc = "fetch"
    /\ inventory' \in Inventories
    /\ games' = {}
    /\ cidx' = 0
    /\ didx' = 0
    /\ claim_calls' = <<>>
    /\ opc' = "campaigns"
    /\ UNCHANGED <<lvars, hvars, task_seq, channel_names, channels, watching_channel,
                   watching_task, tasks, channel_change, campaign_change,
                   refresh_channels, ridx, ws_open, fresh, unhandled, cpc,
                   session_open, shutdown_log>>

\* a mutant of the loop over the drops: the campaign's status is not looked at
VisitDropAnyStatus ==
    /\ opc = "campaigns"
    /\ cidx < Len(inventory)
    /\ LET c == inventory[cidx + 1]
       IN  /\ didx < Len(c.timed_drops)
           /\ LET d == c.timed_drops[didx + 1]
              IN  /\ games' = IF d.can_earn THEN games \cup {c.game} ELSE games
                  /\ claim_calls' = IF d.can_claim
                                    THEN Append(claim_calls, <<cidx + 1, didx + 1>>)
                                    ELSE claim_calls
    /\ didx' = didx + 1
    /\ UNCHANGED <<lvars, hvars, task_seq, opc, channel_names, cidx, channels,
                   watching_channel, watching_task, tasks, channel_change,
                   campaign_change, refresh_channels, ridx, ws_open, fresh, unhandled,
                   cpc, session_open, shutdown_log, inventory>>

\* line 104-108: the next drop of a campaign that is not UPCOMING: its game is
\* added when it can be earned, and it is claimed (await drop.claim()) when
\* it can be claimed
VisitDrop ==
    /\ opc = "campaigns"
    /\ cidx < Len(inventory)
    /\ LET c == inventory[cidx + 1]
       IN  /\ c.status # "UPCOMING"
           /\ didx < Len(c.timed_drops)
           /\ LET d == c.timed_drops[didx + 1]
              IN  /\ games' = IF d.can_earn THEN games \cup {c.game} ELSE games
                  /\ claim_calls' = IF d.can_claim
                                    THEN Append(claim_calls, <<cidx + 1, didx + 1>>)
                                    ELSE claim_calls
    /\ didx' = didx + 1
    /\ UNCHANGED <<lvars, hvars, task_seq, opc, channel_names, cidx, channels,
                   watching_channel, watching_task, tasks, channel_change,
                   campaign_change, refresh_channels, ridx, ws_open, fresh, unhandled,
                   cpc, session_open, shutdown_log, inventory>>

\* line 100-104: an UPCOMING campaign is skipped (continue), and a campaign
\* whose drops are all visited is left
NextCampaign ==
    /\ opc = "campaigns"
    /\ cidx < Len(inventory)
    /\ LET c == inventory[cidx + 1]
       IN  c.status = "UPCOMING" \/ didx = Len(c.timed_drops)
    /\ cidx' = cidx + 1
    /\ didx' = 0
    /\ UNCHANGED <<lvars, hvars, task_seq, opc, channel_names, games, channels,
                   watching_channel, watching_task, tasks, channel_change,
                   campaign_change, refresh_channels, ridx, ws_open, fresh, unhandled,
                   cpc, session_open, shutdown_log, inventory, claim_calls>>

\* line 111-115: after the last campaign: with no games suspend forever,
\* else go on to start the websocket
InventoryDone ==
    /\ opc = "campaigns"
    /\ cidx = Len(inventory)
    /\ opc' = IF games = {} THEN "idle" ELSE "ws_start"
    /\ UNCHANGED <<lvars, hvars, task_seq, channel_names, games, cidx, channels,
                   watching_channel, watching_task, tasks, channel_change,
                   campaign_change, refresh_channels, ridx, ws_open, fresh, unhandled,
                   cpc, session_open, shutdown_log, inventory, didx, claim_calls>>

\* ------------------------------------------------------------------ close()
\* line 77-79: the cookie jar is saved, then stop_watching() runs; close()
\* suspends at line 80
CloseStart ==
    /\ cpc = "none"
    /\ saved' = jar                                   \* jar.save(COOKIES_PATH)
    /\ StopWatching
    /\ shutdown_log' = shutdown_log \o <<"cookie", "heartbeat">>
    /\ cpc' = "session_close"
    /\ UNCHANGED <<hvars, opc, channel_names, games, cidx, channels, channel_change,
                   campaign_change, refresh_channels, ridx, ws_open, fresh, unhandled,
                   lpc, password, payload, attempt, login_response, access_token,
                   user_id, is_logged_in, jar, cookie, rejected, session_open,
                   inventory, didx, claim_calls>>

\* line 80: await self._session.close() returns
CloseSession ==
    /\ cpc = "session_close"
    /\ session_open' = FALSE
    /\ shutdown_log' = Append(shutdown_log, "session")
    /\ cpc' = "ws_stop"
    /\ UNCHANGED <<ovars, lvars, hvars, inventory, didx, claim_calls>>

\* line 81: await self.websocket.stop() returns
CloseWebsocket ==
    /\ cpc = "ws_stop"
    /\ ws_open' = FALSE
    /\ shutdown_log' = Append(shutdown_log, "bus")
    /\ cpc' = "sleep"
    /\ UNCHANGED <<lvars, hvars, task_seq, opc, channel_names, games, cidx, channels,
                   watching_channel, watching_task, tasks, channel_change,
                   campaign_change, refresh_channels, ridx, fresh, unhandled,
                   session_open, inventory, didx, claim_calls>>

\* line 82: await asyncio.sleep(1) returns, and close() with it
CloseSleep ==
    /\ cpc = "sleep"
    /\ cpc' = "closed"
    /\ UNCHANGED <<ovars, lvars, hvars, session_open, shutdown_log, inventory, didx,
                   claim_calls>>

\* ------------------------------------------------------------ specification
\* the channel lists run() is called with: none (discovery) or both channels
ChannelNameLists == {<<>>, <<1, 2>>}

NoEvent == [id |-> 0, type |-> "none", viewers |-> 0]

\* close() has not been called, self.inventory is empty, no event was handled
RestInit ==
    /\ cpc = "none"
    /\ session_open = TRUE
    /\ shutdown_log = <<>>
    /\ inventory = <<>>
    /\ didx = 0
    /\ claim_calls = <<>>
    /\ event = NoEvent
    /\ event_seq = 0

\* the orchestrator's state after Twitch.__init__, with run(names) about to start
OrchInit(names) ==
    /\ opc = "fetch"
    /\ channel_names = names
    /\ games = {}
    /\ cidx = 0
    /\ channels = <<>>
    /\ watching_channel = NoChannel
    /\ watching_task = 0
    /\ tasks = {}
    /\ task_seq = 0
    /\ channel_change = FALSE
    /\ campaign_change = FALSE
    /\ refresh_channels = FALSE
    /\ ridx = 0
    /\ ws_open = FALSE
    /\ fresh = FALSE
    /\ unhandled = FALSE
    /\ RestInit

\* the session after Twitch.__init__: no token, no user id, the cookie jar as
\* loaded from the cookie file, the password as given to the constructor
SessionInit ==
    /\ lpc = "idle"
    /\ password \in Passwords \cup {0}
    /\ payload = NoPayload
    /\ attempt = 0
    /\ login_response = NoResponse
    /\ access_token = 0
    /\ user_id = 0
    /\ is_logged_in = FALSE
    /\ jar \in {NoCookie} \cup [auth_token : Tokens, persistent : UserIds]
    /\ cookie = NoCookie
    /\ saved = jar
    /\ rejected = {}

\* the session once check_login() has restored it from a stored cookie: from
\* here every check_login() of a gql_request() returns at line 378
SessionEstablished ==
    /\ lpc = "idle"
    /\ password = 0
    /\ payload = NoPayload
    /\ attempt = 0
    /\ login_response = NoResponse
    /\ access_token = 1
    /\ user_id = 1
    /\ is_logged_in = TRUE
    /\ jar = [auth_token |-> 1, persistent |-> 1]
    /\ cookie = [auth_token |-> 1, persistent |-> 1]
    /\ saved = [auth_token |-> 1, persistent |-> 1]
    /\ rejected = {}

\* run() of a client whose session is established
Init ==
    /\ \E names \in ChannelNameLists : OrchInit(names)
    /\ SessionEstablished

Next ==
    \/ FetchInventory
    \/ ProcessCampaign
    \/ CheckGames
    \/ StartWebsocket
    \/ Populate
    \/ CampaignBranch
    \/ StopWebsocket
    \/ ScanMatch
    \/ ScanNoMatch
    \/ RefreshChannel
    \/ Backoff
    \/ ReevaluateCampaigns
    \/ \E id \in ChannelIds, msg \in Events :
          ProcessStreamState(id, msg) /\ UNCHANGED hvars
    \/ HeartbeatSend(OrchPings)
    \/ HeartbeatBonus

Spec == Init /\ [][Next]_vars

\* the session manager from a fresh client on
InitLogin ==
    /\ OrchInit(<<>>)
    /\ SessionInit

NextLogin ==
    \/ CallCheckLogin
    \/ CheckLoginEntry
    \/ ReadCookie
    \/ LoginStart
    \/ Submit
    \/ Validate

SpecLogin == InitLogin /\ [][NextLogin]_vars

\* the heartbeat task on its own: watch() and stop_watching() are called at
\* any time on a populated registry, and the task runs MaxPings pings
InitHeartbeat ==
    /\ opc = "wait"
    /\ channel_names = <<>>
    /\ games = {1}
    /\ cidx = 0
    /\ channels = [k \in 1..2 |->
                     [id |-> k, obj |-> 1,
                      stream |-> [present |-> TRUE, game |-> 1, drops_enabled |-> TRUE,
                                  viewer_count |-> 0]]]
    /\ watching_channel = NoChannel
    /\ watching_task = 0
    /\ tasks = {}
    /\ task_seq = 0
    /\ channel_change = TRUE
    /\ campaign_change = FALSE
    /\ refresh_channels = FALSE
    /\ ridx = 0
    /\ ws_open = TRUE
    /\ fresh = TRUE
    /\ unhandled = FALSE
    /\ RestInit
    /\ SessionEstablished

\* a call of watch(channel) for a registry channel
CallWatch ==
    /\ \E k \in 1..Len(channels) : Watch(channels[k])
    /\ UNCHANGED <<lvars, xvars, hvars, opc, channel_names, games, cidx, channels, channel_change,
                   campaign_change, refresh_channels, ridx, ws_open, fresh, unhandled>>

\* a call of stop_watching()
CallStopWatching ==
    /\ StopWatching
    /\ UNCHANGED <<lvars, xvars, hvars, opc, channel_names, games, cidx, channels, channel_change,
                   campaign_change, refresh_channels, ridx, ws_open, fresh, unhandled>>

NextHeartbeat ==
    \/ CallWatch
    \/ CallStopWatching
    \/ HeartbeatSend(MaxPings)
    \/ HeartbeatBonus

SpecHeartbeat == InitHeartbeat /\ [][NextHeartbeat]_vars

\* close() on a running client: a registry of two live channels, the event
\* bus open; until close() is called channels are watched, and the heartbeat
\* task and the stream-state handler run until close() stops them
InitClose == InitHeartbeat

NextClose ==
    \/ cpc = "none" /\ CallWatch
    \/ HeartbeatSend(OrchPings)
    \/ HeartbeatBonus
    \/ \E id \in ChannelIds, msg \in Events :
          ProcessStreamState(id, msg) /\ UNCHANGED hvars
    \/ CloseStart
    \/ CloseSession
    \/ CloseWebsocket
    \/ CloseSleep

SpecClose == InitClose /\ [][NextClose]_vars

\* the stream-state handler on its own: the inner loop of run() waits on a
\* populated registry and selects watch targets, and the event bus delivers
\* events, also for a channel id that is not in the registry and with viewer
\* counts up to MaxEventViewers
MaxEventViewers == 1

UnknownId == NumChannels + 1

EventsWithViewers ==
    Events \cup [type : {"viewcount"}, viewers : 0..MaxEventViewers, s : StreamData]

InitEvents ==
    /\ opc = "wait"
    /\ channel_names = <<>>
    /\ games = {1}
    /\ cidx = 0
    /\ \E st \in [ChannelIds -> StreamOpt] :
         channels = [k \in 1..NumChannels |-> [id |-> k, obj |-> 1, stream |-> st[k]]]
    /\ watching_channel = NoChannel
    /\ watching_task = 0
    /\ tasks = {}
    /\ task_seq = 0
    /\ channel_change = TRUE
    /\ campaign_change = FALSE
    /\ refresh_channels = FALSE
    /\ ridx = 0
    /\ ws_open = TRUE
    /\ fresh = TRUE
    /\ unhandled = FALSE
    /\ RestInit
    /\ SessionEstablished

\* the event bus calls process_stream_state(id, msg)
Deliver ==
    \E id \in ChannelIds \cup {UnknownId}, msg \in EventsWithViewers :
        /\ ProcessStreamState(id, msg)
        /\ event' = [id |-> id, type |-> msg.type, viewers |-> msg.viewers]
        /\ event_seq' = (event_seq + 1) % 2

NextEvents ==
    \/ Deliver
    \/ ScanMatch

SpecEvents == InitEvents /\ [][NextEvents]_vars

\* the first part of an outer cycle of run(), drop by drop: the first cycle,
\* or a later one, entered from the campaign-change branch with the games of
\* the cycle before still in 'games'
InitInventory ==
    \/ OrchInit(<<>>) /\ SessionEstablished
    \/ /\ opc = "fetch"
       /\ channel_names = <<>>
       /\ games \in (SUBSET Games) \ {{}}
       /\ cidx = 0
       /\ channels = <<>>
       /\ watching_channel = NoChannel
       /\ watching_task = 0
       /\ tasks = {}
       /\ task_seq = 0
       /\ channel_change = TRUE
       /\ campaign_change = TRUE
       /\ refresh_channels = FALSE
       /\ ridx = 0
       /\ ws_open = FALSE
       /\ fresh = TRUE
       /\ unhandled = FALSE
       /\ RestInit
       /\ SessionEstablished

NextInventory ==
    \/ GetInventory
    \/ VisitDrop
    \/ NextCampaign
    \/ InventoryDone

SpecInventory == InitInventory /\ [][NextInventory]_vars

\* ================================================================== claims

\* a step in which live task t sends a ping, leaving it as u
PingStep(t, u) == u.id = t.id /\ u.n = t.n + 1

\* C1: at most one heartbeat task is live at any time, and it is the task of
\* the watched channel; a task that watch() has replaced sends no ping:
\* every ping is sent by the task self._watching_task names.
OneLiveTask ==
    /\ Cardinality(tasks) <= 1
    /\ \A t \in tasks : t.id = watching_task /\ t.channel = watching_channel.id

PingsByCurrentTask ==
    \A t \in tasks : \A u \in tasks' :
        PingStep(t, u) => (t.id = watching_task /\ tasks = {t})

Thm_C1 == [](OneLiveTask) /\ [][PingsByCurrentTask]_vars

\* the second task, started by watch() while the first was live (stop_watching()
\* runs only in the campaign-change branch, which has not run), has sent a ping
Witness_C1 ==
    /\ ~campaign_change
    /\ \E t \in tasks : t.id = 2 /\ t.n >= 1

\* the scan of run() ran in this step (and found an entry or did not)
ScanStep ==
    /\ opc = "wait"
    /\ channel_change
    /\ ~campaign_change
    /\ (opc' \in {"refresh", "backoff"} \/ task_seq' # task_seq)

\* the watched-channel pointer and every live heartbeat refer to an online channel
NotDangling(chs, wc, ts) ==
    /\ wc # NoChannel => \E k \in 1..Len(chs) : chs[k].id = wc.id /\ chs[k].stream.present
    /\ \A t \in ts : \E k \in 1..Len(chs) : chs[k].id = t.channel /\ chs[k].stream.present

\* C2: a stream-down event for the watched channel raises channel-change, and
\* right after the orchestrator's next scan neither the watched-channel
\* pointer nor a live heartbeat refers to an offline channel.
Claim_C2 ==
    [][/\ \A k \in 1..Len(channels) :
            (/\ IsCurrentlyWatching(channels[k])
             /\ Len(channels') = Len(channels)
             /\ channels[k].stream.present
             /\ ~channels'[k].stream.present
             /\ opc' = opc) => channel_change'
       /\ ScanStep => NotDangling(channels', watching_channel', tasks')]_vars

\* the campaign-change branch of run() is taken in this step
CampaignStep == opc = "wait" /\ opc' = "ws_stop"

\* C3: after one reevaluate_campaigns() has been handled, the orchestrator
\* does not restart the outer cycle again unless campaign-change is raised
\* anew: the campaign-change branch is taken only for an unhandled raise.
Claim_C3 == [][CampaignStep => unhandled]_vars

\* the scan of run() ran in this step and found no entry
NoMatchStep ==
    /\ opc = "wait"
    /\ channel_change
    /\ ~campaign_change
    /\ opc' \in {"refresh", "backoff"}

\* C4 as claimed: a no-match scan of a freshly populated (non-empty) registry
\* goes to the refresh of every entry, not to the 120-unit backoff.
Claim_C4 == [][(NoMatchStep /\ fresh /\ Len(channels) > 0) => opc' = "refresh"]_vars

\* C4 as amended: a no-match scan goes to the refresh exactly when run()'s
\* refresh flag is set, which it is not on a freshly populated registry (that
\* scan goes straight to the 120-unit backoff); the refresh visits every
\* registry entry in order, clears the flag and returns to the scan.
RefreshOrBackoff ==
    /\ NoMatchStep => /\ (opc' = "refresh") = refresh_channels
                      /\ (opc' = "backoff") = ~refresh_channels
                      /\ fresh => opc' = "backoff"
                      /\ opc' = "refresh" => ridx' = 1
    /\ (opc = "refresh" /\ ridx' # ridx) => (ridx' = ridx + 1 \/ opc' = "wait")
    /\ (opc = "refresh" /\ opc' # "refresh") =>
           (ridx = Len(channels) /\ opc' = "wait" /\ ~refresh_channels')

Thm_C4 ==
    /\ [](fresh => ~refresh_channels)
    /\ [](opc = "refresh" => ridx \in 1..Len(channels))
    /\ [][RefreshOrBackoff]_vars

\* the first scan after the population of a non-empty registry found nothing,
\* no channel has ever been watched, and the orchestrator sleeps 120
Witness_C4 == opc = "backoff" /\ task_seq = 0 /\ Len(channels) > 0 /\ ~refresh_channels

\* the conditions of the claim on a registry entry, written out
Selectable(ch, gs) ==
    /\ ch.stream # NoStream
    /\ ch.stream.present
    /\ ch.stream.game \in Games
    /\ ch.stream.drops_enabled = TRUE
    /\ ch.stream.game \in gs

\* C5: whenever the inner loop selects a watch target, the target is a
\* registry entry whose stream is present and online, has game info, has
\* drops enabled and a game of the relevant set, and no entry before it in
\* registry order is such an entry.
Thm_C5 ==
    [][(opc = "wait" /\ task_seq' # task_seq) =>
         \E k \in 1..Len(channels) :
            /\ watching_channel' = ChanRef(channels[k])
            /\ Selectable(channels[k], games)
            /\ \A j \in 1..(k - 1) : ~Selectable(channels[j], games)
            /\ \E u \in tasks' : u.id = watching_task' /\ u.channel = channels[k].id]_vars

\* registry <<A offline, B online with drops and a relevant game>>: B was selected
Witness_C5 ==
    /\ Len(channels) = 2
    /\ ~channels[1].stream.present
    /\ Selectable(channels[2], games)
    /\ watching_channel = ChanRef(channels[2])
    /\ ~channel_change
    /\ \E t \in tasks : t.channel = channels[2].id /\ t.n = 0

\* C6: a heartbeat task issues the point-bonus check on its pings number
\* 0, 30, 60, ... and on no other; its counter stays in 0..29, equals the
\* number of pings sent modulo 30, and is 0 in a newly started task.
BonusOnEveryThirtieth ==
    \A t \in tasks : \A u \in tasks' :
        PingStep(t, u) => ((u.pc = "bonus") = (t.n % 30 = 0))

CounterInRange ==
    \A t \in tasks :
        /\ t.i \in 0..29
        /\ t.pc = "send" => t.i = t.n % 30
        /\ t.pc = "bonus" => (t.i = 0 /\ (t.n - 1) % 30 = 0)
        /\ t.n = 0 => (t.i = 0 /\ t.pc = "send")

Thm_C6 == [](CounterInRange) /\ [][BonusOnEveryThirtieth]_vars

\* a task has sent its ping number 60 and is issuing the point-bonus check
Witness_C6 == \E t \in tasks : t.n = 61 /\ t.pc = "bonus"

\* C7: every submission of the login flow carries the password entered last;
\* after a 3001 answer the next submission carries the re-entered password.
Claim_C7 == lpc = "submit" => payload.password = password

\* C8: a login flow makes at most 10 submissions and returns only with an
\* access token one of them yielded; otherwise it ends with an error.
Claim_C8 ==
    [][(lpc = "submit" /\ lpc' # "submit") =>
         /\ attempt' <= MaxAttempts
         /\ lpc' = "validate" => (login_response'.access_token # 0
                                  /\ access_token' = login_response'.access_token)
         /\ login_response'.access_token = 0 =>
                lpc' \in {"raised_captcha", "raised_failed", "raised_exhausted"}]_vars

\* C9: a 401 of the validation endpoint clears the stored cookie and restarts
\* the protocol, which then logs in afresh; no validation call is made with a
\* token that has already been answered 401.
Claim_C9 ==
    /\ [][(lpc = "validate" /\ rejected' # rejected) => (jar' = NoCookie /\ lpc' = "loop")]_vars
    /\ [](lpc = "validate" => access_token \notin rejected)

\* C10: a check_login() entered with access token and user id set returns at
\* once: no submission, no validation request, no cookie write, the session
\* unchanged; and a completed check_login() leaves both set.
Thm_C10 ==
    /\ [](is_logged_in /\ lpc = "idle" => access_token # 0 /\ user_id # 0)
    /\ [][(lpc = "entry" /\ access_token # 0 /\ user_id # 0) =>
            (lpc' = "idle" /\ UNCHANGED <<password, payload, attempt, login_response,
                                          access_token, user_id, is_logged_in, jar,
                                          cookie, saved, rejected>>)]_vars

\* a second check_login() has been entered after a successful one
Witness_C10 == lpc = "entry" /\ is_logged_in /\ access_token # 0 /\ user_id # 0

\* the order of shutdown the claim states
ShutdownOrder == <<"heartbeat", "bus", "cookie", "session">>

\* C11: close() stops the heartbeat, then stops the event bus, then persists
\* the cookie state, and only after all three releases the HTTP session: the
\* steps done so far are always a prefix of that order, and the session is
\* released only with no heartbeat task, the event bus stopped and the
\* cookie jar saved.
Claim_C11 ==
    /\ Len(shutdown_log) <= Len(ShutdownOrder)
    /\ \A k \in 1..Len(shutdown_log) :
          k <= Len(ShutdownOrder) => shutdown_log[k] = ShutdownOrder[k]
    /\ ~session_open => (tasks = {} /\ ~ws_open /\ saved = jar)

\* process_stream_state() handled an event in this step
EventStep == event_seq' # event_seq

\* C12: a viewcount event for a registry channel that is marked offline marks
\* the channel online and stores the event's viewer count on it, in that one
\* handler invocation.
Claim_C12 ==
    [][(EventStep /\ event'.type = "viewcount") =>
         \A k \in 1..Len(channels) :
            (channels[k].id = event'.id /\ ~channels[k].stream.present) =>
                /\ channels'[k].stream.present
                /\ channels'[k].stream.viewer_count = event'.viewers]_vars

\* the registry entry of the handled event's channel id is entry k, which is
\* (or is not) the watched channel
EventEntry(k) == k \in 1..Len(channels) /\ channels[k].id = event'.id

WatchedEntry(k) == watching_channel.id # 0 /\ watching_channel.id = channels[k].id

\* C18: the stream-state handler changes only what its event kind allows. An
\* event for an id that is not in the registry changes nothing and raises
\* no signal; stream-up marks the channel online and raises no signal;
\* stream-down marks it offline and raises channel-change if and only if the
\* channel is the watched one; no event raises campaign-change, changes the
\* watched-channel pointer, the heartbeat, another registry entry or the
\* orchestrator's position.
EventFrame ==
    /\ UNCHANGED <<lvars, xvars, task_seq, opc, channel_names, games, cidx,
                   watching_channel, watching_task, tasks, campaign_change,
                   refresh_channels, ridx, ws_open, fresh, unhandled>>
    /\ Len(channels') = Len(channels)
    /\ \A k \in 1..Len(channels) :
          /\ channels'[k].id = channels[k].id
          /\ channels'[k].obj = channels[k].obj
          /\ ~EventEntry(k) => channels'[k] = channels[k]
    /\ (\A k \in 1..Len(channels) : ~EventEntry(k)) =>
          UNCHANGED <<channels, channel_change>>
    /\ \A k \in 1..Len(channels) : EventEntry(k) =>
          /\ event'.type = "stream-up" =>
                (channels'[k].stream.present /\ channel_change' = channel_change)
          /\ event'.type = "stream-down" =>
                /\ ~channels'[k].stream.present
                /\ WatchedEntry(k) => channel_change'
                /\ ~WatchedEntry(k) => channel_change' = channel_change
          /\ event'.type = "viewcount" =>
                (channels'[k].stream.present /\ channel_change' = channel_change)

Thm_C18 == [][EventStep => EventFrame]_vars

\* a stream-down event for the watched channel has just raised channel-change
\* (which the selection of that channel had cleared)
Witness_C18 ==
    /\ event.type = "stream-down"
    /\ watching_channel.id = event.id
    /\ task_seq = 1
    /\ channel_change
    /\ \E k \in 1..Len(channels) : channels[k].id = event.id /\ ~channels[k].stream.present

\* the number of drop.claim() calls made for drop d of campaign c
ClaimCount(c, d) ==
    Cardinality({i \in 1..Len(claim_calls) : claim_calls[i] = <<c, d>>})

\* drop d of campaign c of the inventory is to be claimed / makes its game relevant
ToClaim(c, d) ==
    inventory[c].status # "UPCOMING" /\ inventory[c].timed_drops[d].can_claim

Earnable(c) ==
    /\ inventory[c].status # "UPCOMING"
    /\ \E d \in 1..Len(inventory[c].timed_drops) : inventory[c].timed_drops[d].can_earn

\* C13: in an outer cycle exactly one claim call is issued per drop with
\* can_claim of a campaign that is not UPCOMING, all of them before the
\* no-games check; drops of UPCOMING campaigns are never claimed and add no
\* game; at the no-games check a game is relevant iff a non-upcoming
\* campaign of that game has a drop with can_earn.
ClaimsSound ==
    \A c \in 1..Len(inventory) : \A d \in 1..Len(inventory[c].timed_drops) :
        /\ ClaimCount(c, d) <= 1
        /\ ClaimCount(c, d) = 1 => ToClaim(c, d)

ClaimsComplete ==
    \A c \in 1..Len(inventory) : \A d \in 1..Len(inventory[c].timed_drops) :
        ToClaim(c, d) => ClaimCount(c, d) = 1

GamesRelevant ==
    games = {inventory[c].game : c \in {x \in 1..Len(inventory) : Earnable(x)}}

Thm_C13 ==
    /\ [](opc = "campaigns" => ClaimsSound)
    /\ [](opc \in {"idle", "ws_start"} =>
            (ClaimsSound /\ ClaimsComplete /\ GamesRelevant))
    /\ [][(opc = "campaigns" /\ opc' # "campaigns") =>
            (ClaimsComplete /\ GamesRelevant /\ UNCHANGED <<claim_calls, games>>
             /\ (opc' = "idle") = (games = {}))]_vars
    /\ [][(opc \in {"idle", "ws_start"}) => UNCHANGED claim_calls]_vars

\* an UPCOMING campaign with a claimable, earnable drop, then an ACTIVE one
\* with a claimable drop that cannot be earned: one claim call, no relevant
\* game, the orchestrator idle
Witness_C13 ==
    /\ opc = "idle"
    /\ Len(inventory) = 2
    /\ inventory[1].status = "UPCOMING"
    /\ inventory[1].timed_drops = <<[can_earn |-> TRUE, can_claim |-> TRUE]>>
    /\ inventory[2].status = "ACTIVE"
    /\ inventory[2].timed_drops = <<[can_earn |-> FALSE, can_claim |-> TRUE]>>
    /\ claim_calls = <<<<2, 1>>>>

\* C14: an outer cycle that finds no relevant games enters the idle state,
\* which is terminal: from then on the orchestrator fetches no inventory,
\* opens no event bus, adds no registry entry and starts no heartbeat; and
\* in every idle state no heartbeat task runs and the event bus is not open.
IdleQuiet ==
    opc = "idle" =>
        (tasks = {} /\ watching_task = 0 /\ watching_channel = NoChannel /\ ~ws_open)

IdleForever ==
    opc = "idle" =>
        /\ opc' = "idle"
        /\ UNCHANGED <<channels, tasks, task_seq, watching_task, watching_channel,
                       ws_open, games, cidx, channel_change>>

IdleIffNoGames ==
    (opc = "campaigns" /\ opc' # "campaigns") => ((opc' = "idle") = (games = {}))

Thm_C14 == [](IdleQuiet) /\ [][IdleForever /\ IdleIffNoGames]_vars

\* a later outer cycle found no relevant game: the orchestrator is idle with a
\* populated registry, after a channel had been watched
Witness_C14 == opc = "idle" /\ Len(channels) > 0 /\ task_seq >= 1

\* C15: at most one channel is the watched channel, and a set watched-channel
\* pointer refers to the channel record the registry holds under that id.
PointerInRegistry ==
    watching_channel # NoChannel =>
        \E k \in 1..Len(channels) :
            /\ channels[k].id = watching_channel.id
            /\ channels[k].obj = watching_channel.obj

UniqueIds ==
    \A j \in 1..Len(channels) : \A k \in 1..Len(channels) :
        channels[j].id = channels[k].id => j = k

Thm_C15 ==
    /\ PointerInRegistry
    /\ UniqueIds
    /\ Cardinality({k \in 1..Len(channels) : ChanRef(channels[k]) = watching_channel}) <= 1
    /\ Cardinality({t.channel : t \in tasks}) <= 1

\* a second selection: the channel watched first went offline, and another
\* registry channel is the watched one
Witness_C15 ==
    /\ watching_channel # NoChannel
    /\ task_seq = 2
    /\ tasks # {}
    /\ \E k \in 1..Len(channels) :
          channels[k].id # watching_channel.id /\ ~channels[k].stream.present

\* C17: the registry only grows: no entry is removed; in discovery mode an
\* id already in the registry keeps its record and its event-updated state
\* over a population; in fixed-list mode a named channel's entry is created
\* once and is not re-created or replaced on later cycles.
Claim_C17 ==
    [][/\ Len(channels') >= Len(channels)
       /\ \A k \in 1..Len(channels) :
             /\ channels'[k].id = channels[k].id
             /\ channels'[k].obj = channels[k].obj
       /\ (opc = "populate" /\ opc' = "wait" /\ channel_names = <<>>) =>
             \A k \in 1..Len(channels) : channels'[k] = channels[k]]_vars

\* the positions of run() from the campaign-change branch to the next inner loop
Rederiving == {"ws_stop", "fetch", "campaigns", "ws_start", "populate"}

\* C16: when the orchestrator handles a campaign-change signal, the heartbeat
\* task is cancelled, the watched-channel pointer is cleared and the event
\* bus is stopped before the next inventory fetch begins; the cancelled
\* heartbeat sends no ping after that, and nothing is watched while the
\* inventory is re-derived.
Thm_C16 ==
    /\ [][CampaignStep =>
            (tasks' = {} /\ watching_task' = 0 /\ watching_channel' = NoChannel)]_vars
    /\ [](opc \in Rederiving =>
            (tasks = {} /\ watching_task = 0 /\ watching_channel = NoChannel))
    /\ [](opc \in {"fetch", "campaigns"} => ~ws_open)
    /\ [][(opc \in Rederiving) =>
            \A t \in tasks : \A u \in tasks' : ~PingStep(t, u)]_vars

\* the inventory is fetched again after a channel had been watched
Witness_C16 ==
    /\ opc = "fetch"
    /\ task_seq >= 1
    /\ Len(channels) > 0
    /\ campaign_change
    /\ ~unhandled

\* C19: when the validation endpoint answers 401 the in-memory access token
\* is cleared before the session is re-derived; the loggedIn latch, once
\* set, is never reset.
Claim_C19 ==
    /\ [][(lpc = "validate" /\ rejected' # rejected) => access_token' = 0]_vars
    /\ [][is_logged_in => is_logged_in']_vars

\* C20: a wake-up of the inner loop with both signals set takes the
\* campaign-change branch (stop watching, then stop the event bus and
\* restart the outer cycle) and starts no watch, whichever signal was
\* raised first.
BothSet == opc = "wait" /\ campaign_change /\ channel_change

Thm_C20 ==
    [][BothSet =>
         /\ task_seq' = task_seq
         /\ opc' \in {"wait", "ws_stop"}
         /\ channel_change'
         /\ opc' = "ws_stop" =>
                (tasks' = {} /\ watching_task' = 0 /\ watching_channel' = NoChannel)
         /\ opc' = "wait" => UNCHANGED <<watching_channel, watching_task>>]_vars

\* in the first outer cycle a channel was selected (which cleared
\* channel-change), its stream-down event raised channel-change again, and
\* the wake-up with both signals set took the campaign-change branch
Witness_C20 ==
    /\ opc = "ws_stop"
    /\ channel_change
    /\ campaign_change
    /\ ~fresh
    /\ task_seq >= 1
    /\ tasks = {}

\* the channel-change signal is cleared in this step
ClearStep == channel_change /\ ~channel_change'

\* C21: the channel-change signal is cleared only in the uninterrupted step
\* in which a watch target is started, by a scan of the registry as it is
\* then (so after every stream-down event handled before it); it stays set
\* through the refresh and the 120-unit backoff; a stream-down event for
\* the watched channel raises it at whatever suspension point run() is.
ClearedOnlyWithWatch ==
    ClearStep =>
        /\ opc = "wait" /\ opc' = "wait"
        /\ ~campaign_change
        /\ task_seq' = task_seq + 1
        /\ \E k \in 1..Len(channels) :
              /\ Selectable(channels[k], games)
              /\ \A j \in 1..(k - 1) : ~Selectable(channels[j], games)
              /\ watching_channel' = ChanRef(channels[k])
              /\ \E u \in tasks' : u.id = watching_task' /\ u.channel = channels[k].id /\ u.n = 0
        /\ channels' = channels

RaisedForWatched ==
    \A k \in 1..Len(channels) :
        (/\ Len(channels') = Len(channels)
         /\ opc' = opc
         /\ ridx' = ridx
         /\ watching_channel # NoChannel
         /\ watching_channel = ChanRef(channels[k])
         /\ channels[k].stream.present
         /\ ~channels'[k].stream.present) => channel_change'

Thm_C21 ==
    /\ [](opc \in {"refresh", "backoff"} => channel_change)
    /\ [][ClearedOnlyWithWatch /\ RaisedForWatched]_vars

\* the watched channel went offline, which raised channel-change; the scans
\* since found nothing, and the signal is still set after the refresh, in
\* the 120-unit backoff
Witness_C21 ==
    /\ opc = "backoff"
    /\ channel_change
    /\ task_seq = 1
    /\ watching_channel # NoChannel
    /\ \E k \in 1..Len(channels) :
          channels[k].id = watching_channel.id /\ ~channels[k].stream.present

====
